---- MODULE Spec2Model ----
(***************************************************************************)
(* The Series -> Event migration scripts of Sportarr: seven batch          *)
(* rewriting scripts that read source files, run an ordered list of        *)
(* re.sub rules over the text and write the result back.                   *)
(*                                                                         *)
(* Text is modelled as a sequence of fragments (tokens).  Concatenating    *)
(* the fragments of a pattern gives the regular expression of the source   *)
(* (with its escapes resolved); concatenating the fragments of a content   *)
(* gives the file text.  Fragments are chosen so that a text has one       *)
(* tokenisation, and every match of a source pattern starts and ends at    *)
(* fragment borders.                                                       *)
(***************************************************************************)
EXTENDS Integers, Sequences, FiniteSets, TLC

\* Longest content (in fragments) drawn as an input of one pass.
MaxLen == 3

-----------------------------------------------------------------------------
(* Fragments and character classes                                          *)

\* Fragments whose first and last characters are not word characters
\* ([A-Za-z0-9_] is the class \w of Python's re).
NonWordTokens ==
    { ".", "/", "'", "\"", ":", " ", "(", "<", ">", "|", "[]", "//", "~",
      "/addSeriesOptionsStore'" }

\* Fragments that start with a word character and end with a non-word one.
PrefixTokens ==
    { "from '", "from 'Store/Selectors/", "from 'Store/Actions/",
      "from 'App/State/" }

\* Fragments that are one character long: what an unescaped "." matches.
AnyChar == { ".", "/", "'", "\"", ":", " ", "(", "<", ">", "|", "~",
             "x", "A", "B", "C" }

StartsWord(t) == t \notin NonWordTokens
EndsWord(t) == t \notin (NonWordTokens \cup PrefixTokens)

\* \b at the gap before position i of s (i = Len(s)+1: the end of the text).
Boundary(s, i) ==
    LET before == (i > 1) /\ EndsWord(s[i - 1])
        after  == (i <= Len(s)) /\ StartsWord(s[i])
    IN  before # after

-----------------------------------------------------------------------------
(* Rules                                                                    *)

\* A literal pattern: one singleton per fragment.
Lit(ts) == [k \in 1..Len(ts) |-> {ts[k]}]

\* lb / rb: the pattern starts / ends with \b.
Rule(lb, pat, rb, rep) == [lb |-> lb, pat |-> pat, rb |-> rb, rep |-> rep]

\* (r'\bname\b', r'other')
Word(a, b) == Rule(TRUE, Lit(<<a>>), TRUE, <<b>>)
\* a pattern without \b
Plain(p, r) == Rule(FALSE, Lit(p), FALSE, r)

FixActionImportsRules ==
    << Word("fetchSeries", "fetchEvents"),
       Word("saveSeries", "saveEvent"),
       Word("deleteSeries", "deleteEvent"),
       Word("toggleSeriesMonitored", "toggleEventMonitored"),
       Word("toggleSeasonMonitored", "toggleFightCardMonitored"),
       Word("updateSeriesMonitor", "updateEventMonitor"),
       Rule(TRUE, Lit(<<"saveSeries", "Editor">>), TRUE, <<"saveEvent", "Editor">>),
       Word("bulkDeleteSeries", "bulkDeleteEvents"),
       Word("setSeriesValue", "setEventValue"),
       Word("setSeriesSort", "setEventSort"),
       Word("setSeriesFilter", "setEventFilter"),
       Word("setSeriesTableOption", "setEventTableOption"),
       Plain(<<"from '", "AddEvent", "/addSeriesOptionsStore'">>,
             <<"from '", "AddEvent", "/addEventOptionsStore'">>),
       \* r"from './addSeriesOptionsStore'": the dot is not escaped
       Rule(FALSE, <<{"from '"}, AnyChar, {"/addSeriesOptionsStore'"}>>, FALSE,
            <<"from '", ".", "/addEventOptionsStore'">>) >>

FixEventIndexIndexRules ==
    << Plain(<<"eventIndex", "Index">>, <<"eventIndex">>) >>

FixStateReferencesRules ==
    << Plain(<<"state", ".", "event", ".">>, <<"state", ".", "events", ".">>) >>

ImportOf(prefix, a, b) == Plain(<<prefix, a, "'">>, <<prefix, b, "'">>)

\* fix_state_series_refs: "State references"
StateRules ==
    << Plain(<<"state", ".", "series", ".">>, <<"state", ".", "events", ".">>),
       Rule(FALSE, Lit(<<"state", ".", "series">>), TRUE, <<"state", ".", "events">>) >>

\* fix_state_series_refs: "Selector imports and names", after the first
SelectorNameRules ==
    << Plain(<<"createSeriesCountSelector">>, <<"createEventCountSelector">>),
       Plain(<<"createAllSeriesSelector">>, <<"createAllEventsSelector">>),
       Plain(<<"createExistingSeriesSelector">>, <<"createExistingEventSelector">>),
       Plain(<<"createImportSeriesItemSelector">>, <<"createImportEventItemSelector">>) >>

\* fix_state_series_refs: "Import paths for selectors"
SelectorImportRules ==
    << ImportOf("from 'Store/Selectors/", "createMultiSeriesSelector", "createMultiEventSelector"),
       ImportOf("from 'Store/Selectors/", "createSeriesCountSelector", "createEventCountSelector"),
       ImportOf("from 'Store/Selectors/", "createAllSeriesSelector", "createAllEventsSelector"),
       ImportOf("from 'Store/Selectors/", "createExistingSeriesSelector", "createExistingEventSelector"),
       ImportOf("from 'Store/Selectors/", "createImportSeriesItemSelector", "createImportEventItemSelector") >>

\* A slip in the list: the name rule of createMultiSeriesSelector misspelt.
FixStateSeriesRefsMisspelt ==
    StateRules
    \o << Plain(<<"createMultiSerieSelector">>, <<"createMultiEventSelector">>) >>
    \o SelectorNameRules \o SelectorImportRules

FixStateSeriesRefsRules ==
    StateRules
    \o << Plain(<<"createMultiSeriesSelector">>, <<"createMultiEventSelector">>) >>
    \o SelectorNameRules \o SelectorImportRules

FixTypeReferencesRules ==
    << Rule(TRUE, Lit(<<"Episode", "[]">>), FALSE, <<"FightCard", "[]">>),
       Rule(TRUE, Lit(<<"Series", "[]">>), FALSE, <<"Event", "[]">>),
       Rule(FALSE, Lit(<<":", " ", "Episode">>), TRUE, <<":", " ", "FightCard">>),
       Rule(FALSE, Lit(<<":", " ", "Series">>), TRUE, <<":", " ", "Event">>),
       Plain(<<"<", "Episode", ">">>, <<"<", "FightCard", ">">>),
       Plain(<<"<", "Series", ">">>, <<"<", "Event", ">">>),
       Plain(<<"Episode", "|">>, <<"FightCard", "|">>),
       Plain(<<"Series", "|">>, <<"Event", "|">>),
       Plain(<<"(", "episode", ":">>, <<"(", "fightCard", ":">>),
       Plain(<<"(", "series", ":">>, <<"(", "event", ":">>),
       Rule(TRUE, Lit(<<"const", " ", "episode", ":">>), FALSE, <<"const", " ", "fightCard", ":">>),
       Rule(TRUE, Lit(<<"const", " ", "series", ":">>), FALSE, <<"const", " ", "event", ":">>),
       Plain(<<"state", ".", "importSeries">>, <<"state", ".", "importEvents">>),
       Plain(<<"//", " ", "Series">>, <<"//", " ", "Event">>),
       Plain(<<"//", " ", "Episode">>, <<"//", " ", "FightCard">>) >>

RenameAllSeriesToEventRules ==
    << Plain(<<"'", "seriesIndex", "/">>, <<"'", "eventIndex", "/">>),
       Plain(<<"\"", "seriesIndex", "/">>, <<"\"", "eventIndex", "/">>),
       Word("SET_SERIES_SORT", "SET_EVENT_SORT"),
       Word("SET_SERIES_FILTER", "SET_EVENT_FILTER"),
       Word("SET_SERIES_VIEW", "SET_EVENT_VIEW"),
       Word("SET_SERIES_TABLE_OPTION", "SET_EVENT_TABLE_OPTION"),
       Word("SET_SERIES_POSTER_OPTION", "SET_EVENT_POSTER_OPTION"),
       Word("SET_SERIES_OVERVIEW_OPTION", "SET_EVENT_OVERVIEW_OPTION"),
       Word("setSeriesSort", "setEventSort"),
       Word("setSeriesFilter", "setEventFilter"),
       Word("setSeriesView", "setEventView"),
       Word("setSeriesTableOption", "setEventTableOption"),
       Word("setSeriesPosterOption", "setEventPosterOption"),
       Word("setSeriesOverviewOption", "setEventOverviewOption"),
       Plain(<<"state", ".", "seriesIndex">>, <<"state", ".", "eventIndex">>),
       Plain(<<"'", "seriesIndex", "'">>, <<"'", "eventIndex", "'">>),
       Plain(<<"\"", "seriesIndex", "\"">>, <<"\"", "eventIndex", "\"">>),
       Plain(<<"from 'Store/Actions/", "seriesIndex", "Actions", "'">>,
             <<"from 'Store/Actions/", "eventIndex", "Actions", "'">>),
       ImportOf("from 'Store/Actions/", "seriesActions", "eventDetailActions"),
       ImportOf("from 'Store/Actions/", "seriesHistoryActions", "eventHistoryActions"),
       ImportOf("from 'Store/Actions/", "importSeriesActions", "importEventActions"),
       Word("SeriesIndexAppState", "EventIndexAppState"),
       Word("SeriesAppState", "EventAppState"),
       Word("createSeriesClientSideCollectionItemsSelector",
            "createEventClientSideCollectionItemsSelector"),
       Word("createSeriesSelector", "createEventSelector"),
       Word("seasonCount", "fightCardCount"),
       Word("Seasons", "FightCards"),
       Word("showSeasonCount", "showFightCardCount"),
       Word("showNetwork", "showOrganization"),
       Word("showPreviousAiring", "showPreviousEvent"),
       Word("nextAiring", "nextEvent"),
       Word("previousAiring", "previousEvent") >>

UpdateRenamedFileImportsRules ==
    << ImportOf("from 'Store/Selectors/", "createSeriesClientSideCollectionItemsSelector",
                "createEventClientSideCollectionItemsSelector"),
       ImportOf("from 'Store/Selectors/", "createSeriesSelector", "createEventSelector"),
       ImportOf("from 'Store/Selectors/", "createSeriesQualityProfileSelector",
                "createEventQualityProfileSelector"),
       ImportOf("from 'App/State/", "SeriesAppState", "EventAppState"),
       Plain(<<"from 'Store/Actions/", "seriesIndex", "Actions", "'">>,
             <<"from 'Store/Actions/", "eventIndex", "Actions", "'">>),
       ImportOf("from 'Store/Actions/", "seriesActions", "eventDetailActions"),
       ImportOf("from 'Store/Actions/", "seriesHistoryActions", "eventHistoryActions"),
       ImportOf("from 'Store/Actions/", "importSeriesActions", "importEventActions") >>

Scripts ==
    { "fix_action_imports", "fix_event_index_index", "fix_state_references",
      "fix_state_series_refs", "fix_type_references",
      "rename_all_series_to_event", "update_renamed_file_imports" }

\* The two rule lists of the ordering example: inputs of the rule loop that
\* no script configures.
ExampleChain == << Plain(<<"A">>, <<"B">>), Plain(<<"B">>, <<"C">>) >>
ExampleReversed == << Plain(<<"B">>, <<"C">>), Plain(<<"A">>, <<"B">>) >>
Examples == { "example_chain", "example_reversed" }

Replacements(s) ==
    CASE s = "fix_action_imports" -> FixActionImportsRules
      [] s = "fix_event_index_index" -> FixEventIndexIndexRules
      [] s = "fix_state_references" -> FixStateReferencesRules
      [] s = "fix_state_series_refs" -> FixStateSeriesRefsRules
      [] s = "fix_type_references" -> FixTypeReferencesRules
      [] s = "rename_all_series_to_event" -> RenameAllSeriesToEventRules
      [] s = "update_renamed_file_imports" -> UpdateRenamedFileImportsRules
      [] s = "example_chain" -> ExampleChain
      [] s = "example_reversed" -> ExampleReversed

-----------------------------------------------------------------------------
(* re.sub and the rule loop                                                 *)

\* The pattern of rule r matches s at position i.
MatchAt(r, s, i) ==
    /\ i + Len(r.pat) - 1 <= Len(s)
    /\ \A k \in 1..Len(r.pat) : s[i + k - 1] \in r.pat[k]
    /\ r.lb => Boundary(s, i)
    /\ r.rb => Boundary(s, i + Len(r.pat))

Matches(r, s) == \E i \in 1..Len(s) : MatchAt(r, s, i)

RECURSIVE SubFrom(_, _, _)
\* re.sub from position i on: leftmost matches, none overlapping, one scan.
SubFrom(r, s, i) ==
    IF i > Len(s) THEN <<>>
    ELSE IF MatchAt(r, s, i) THEN r.rep \o SubFrom(r, s, i + Len(r.pat))
    ELSE <<s[i]>> \o SubFrom(r, s, i + 1)

ReSub(r, s) == SubFrom(r, s, 1)

RECURSIVE ApplyReversed(_, _, _)
\* A slip in the loop: the rules applied last to first.
ApplyReversed(rules, k, c) ==
    IF k > Len(rules) THEN c
    ELSE ReSub(rules[k], ApplyReversed(rules, k + 1, c))

RECURSIVE ApplyFrom(_, _, _)
\* for pattern, replacement in replacements: content = re.sub(...)
\* (the singleton set binds re.sub's result to a value, computed once)
ApplyFrom(rules, k, c) ==
    IF k > Len(rules) THEN c
    ELSE CHOOSE out \in { ApplyFrom(rules, k + 1, next) : next \in {ReSub(rules[k], c)} } : TRUE

ApplyRules(rules, c) == ApplyFrom(rules, 1, c)

-----------------------------------------------------------------------------
(* The checkout                                                             *)

\* Most configured roots that are missing from the checkout.
MaxMissing == 1
\* Most I/O failures (of open, read, write, close) one run meets.
MaxFaults == 2

Dir(names) == [k \in 1..Len(names) |-> <<names[k]>>]

\* Directories are sequences of components below base_dir; a component and a
\* file name are sequences of fragments.
Paths ==
    << [dir |-> Dir(<<"Events", "Index", "Table">>), name |-> <<"EventIndexTable", ".tsx">>],
       [dir |-> Dir(<<"Events", "Index", "Table">>), name |-> <<"selectTableOptions", ".ts">>],
       [dir |-> Dir(<<"AddEvent">>), name |-> <<"AddEventOptions", ".js">>],
       [dir |-> Dir(<<"Store", "Actions">>), name |-> <<"eventActions", ".jsx">>],
       [dir |-> Dir(<<"Activity", "node_modules", "pkg">>), name |-> <<"index", ".js">>],
       [dir |-> <<<<"Activity">>, <<"old_", "node_modules">>>>, name |-> <<"Queue", ".ts">>],
       [dir |-> Dir(<<"Events">>), name |-> <<"README", ".md">>],
       [dir |-> Dir(<<"Events", "Index">>), name |-> <<"EventIndexFilterModal", ".tsx">>],
       [dir |-> Dir(<<"Events", "Index", "Overview">>), name |-> <<"selectOverviewOptions", ".ts">>],
       [dir |-> Dir(<<"Events", "Index", "Posters">>), name |-> <<"EventIndexPosters", ".tsx">>],
       [dir |-> Dir(<<"Events", "Index", "Posters">>), name |-> <<"selectPosterOptions", ".ts">>] >>

FileIds == 1..Len(Paths)
\* The files the checkout holds (when their directories exist); the other
\* paths are named by a script and absent.
Checkout == 1..7
\* The files whose content varies between checkouts.
VariableFiles == {1, 3}

\* Directories that may be missing; <<>> is base_dir itself.
MissingChoices ==
    { <<>>, Dir(<<"Events">>), Dir(<<"AddEvent">>), Dir(<<"Store">>),
      Dir(<<"Activity">>), Dir(<<"Calendar">>) }

IsPrefix(p, s) == Len(p) <= Len(s) /\ \A k \in 1..Len(p) : p[k] = s[k]

\* files: the fixed list of fix_event_index_index
FixedFiles == <<8, 9, 10, 11, 1, 2>>

\* directories / target_dirs / base_dir of each main()
Directories(s) ==
    CASE s = "fix_action_imports" -> << Dir(<<"AddEvent">>), Dir(<<"Events">>) >>
      [] s = "fix_state_references" -> << Dir(<<"AddEvent">>), Dir(<<"Events">>) >>
      [] s = "fix_state_series_refs" -> << <<>> >>
      [] s = "fix_type_references" ->
            << Dir(<<"Activity">>), Dir(<<"Calendar">>), Dir(<<"InteractiveImport">>),
               Dir(<<"InteractiveSearch">>), Dir(<<"AddEvent">>), Dir(<<"Wanted">>),
               Dir(<<"typings">>), Dir(<<"Utilities">>) >>
      [] s = "rename_all_series_to_event" ->
            << Dir(<<"Store", "Actions">>), Dir(<<"Events">>), Dir(<<"AddEvent">>),
               Dir(<<"Store", "Selectors">>), Dir(<<"App", "State">>) >>
      [] s = "update_renamed_file_imports" -> << <<>> >>
      [] s = "fix_event_index_index" -> << >>

\* main() tests os.path.exists(directory) before walking it
ChecksExists(s) ==
    s \in { "fix_action_imports", "fix_state_references", "fix_type_references",
            "rename_all_series_to_event" }
\* main() prints "Directory not found" for a missing directory
PrintsNotFound(s) == s = "rename_all_series_to_event"
\* main() skips a directory whose path contains 'node_modules'
SkipsNodeModules(s) == s \in { "fix_state_series_refs", "fix_type_references" }
\* the script writes every file it read, changed or not
WritesAlways(s) == s = "fix_event_index_index"
\* the script counts the files it fixed and prints the total
CountsFixed(s) == s # "fix_event_index_index"

AllowedExt == { ".tsx", ".ts", ".js", ".jsx" }
EndsWithAllowed(name) == name[Len(name)] \in AllowedExt

RECURSIVE JoinPath(_, _)
\* os.path.join of the components from k on, as one fragment sequence
JoinPath(d, k) ==
    IF k > Len(d) THEN <<>> ELSE <<"/">> \o d[k] \o JoinPath(d, k + 1)

RootString(d) == <<"/workspaces/Fightarr/frontend/src">> \o JoinPath(d, 1)

\* 'node_modules' in root: a substring test on the whole directory path
InRoot(d) ==
    LET r == RootString(d) IN \E k \in 1..Len(r) : r[k] = "node_modules"

-----------------------------------------------------------------------------
(* Contents                                                                 *)

\* A content the script's rules rewrite, for each script.
SampleChanged(s) ==
    CASE s = "fix_action_imports" -> <<"x", " ", "fetchSeries">>
      [] s = "fix_event_index_index" -> <<"x", " ", "eventIndex", "Index">>
      [] s = "fix_state_references" -> <<"state", ".", "event", ".">>
      [] s = "fix_state_series_refs" -> <<"state", ".", "series">>
      [] s = "fix_type_references" -> <<":", " ", "Series">>
      [] s = "rename_all_series_to_event" -> <<"state", ".", "seriesIndex">>
      [] s = "update_renamed_file_imports" -> <<"from 'App/State/", "SeriesAppState", "'">>

\* The contents a variable file may hold: one the rules rewrite, one they leave.
Samples(s) == { SampleChanged(s), <<"x", " ", "x">> }

\* The fragments the inputs of one pass are built from.
Alphabet(s) ==
    CASE s = "fix_action_imports" ->
            { "fetchSeries", "saveSeries", "Editor", "from '", "AddEvent", ".",
              "/addSeriesOptionsStore'", " " }
      [] s = "fix_event_index_index" -> { "eventIndex", "Index", "x", " " }
      [] s = "fix_state_references" -> { "state", ".", "event", "events", "x" }
      [] s = "fix_state_series_refs" ->
            { "state", ".", "series", "x", "from 'Store/Selectors/", "'",
              "createMultiSeriesSelector", "createAllSeriesSelector" }
      [] s = "fix_type_references" ->
            { "Series", "Episode", "[]", ":", " ", "|", "x", "(", "series" }
      [] s = "rename_all_series_to_event" ->
            { "'", "seriesIndex", "/", "state", ".", "from 'Store/Actions/", "Actions",
              "SeriesAppState", "x" }
      [] s = "update_renamed_file_imports" ->
            { "from 'Store/Selectors/", "from 'App/State/", "from 'Store/Actions/",
              "createSeriesSelector", "SeriesAppState", "seriesIndex", "Actions", "'" }
      [] s \in Examples -> { "A", "B", "C" }

SeqsUpTo(S, n) == UNION { [1..k -> S] : k \in 0..n }

-----------------------------------------------------------------------------
(* State                                                                    *)

VARIABLES
    script,            \* the script that runs
    missing,           \* the directories missing from the checkout
    orig,              \* the content of every file before the run
    disk,              \* the content of every file now
    pc,                \* where the run is
    rootIdx,           \* main(): index of the directory being walked
    queue,             \* the files os.walk (or the fixed list) still yields
    cur,               \* filepath
    content,           \* content
    original_content,  \* original_content
    fixed_count,       \* fixed_count
    report,            \* the lines printed
    status,            \* per file: where it is in its life cycle
    reads,             \* per file: times opened for reading
    writes,            \* per file: times opened for writing
    faults,            \* I/O failures met so far
    rs,                \* one pass: the rule list
    input,             \* one pass: the content given
    out1,              \* one pass: the result of the first application
    out2,              \* one pass: the result of applying again
    stage              \* one pass: applications done

runVars == << script, missing, orig, disk, pc, rootIdx, queue, cur, content,
              original_content, fixed_count, report, status, reads, writes, faults >>
passVars == << rs, input, out1, out2, stage >>
vars == << runVars, passVars >>

DirExists(d) == \A m \in missing : ~IsPrefix(m, d)
\* The file is in the checkout.
Present(f) == f \in Checkout /\ DirExists(Paths[f].dir)

RunIdle ==
    /\ script = "none" /\ missing = {} /\ orig = <<>> /\ disk = <<>>
    /\ pc = "idle" /\ rootIdx = 0 /\ queue = <<>> /\ cur = 0
    /\ content = <<>> /\ original_content = <<>> /\ fixed_count = 0
    /\ report = <<>> /\ status = <<>> /\ reads = <<>> /\ writes = <<>>
    /\ faults = 0

PassIdle ==
    /\ rs = "none" /\ input = <<>> /\ out1 = <<>> /\ out2 = <<>> /\ stage = 0

Init ==
    /\ script \in Scripts
    /\ missing \in { m \in SUBSET MissingChoices : Cardinality(m) <= MaxMissing }
    /\ orig \in { o \in [FileIds -> Samples(script)] :
                    \A f \in FileIds \ VariableFiles : o[f] = SampleChanged(script) }
    /\ disk = orig
    /\ pc = "start"
    /\ rootIdx = 0
    /\ queue = <<>>
    /\ cur = 0
    /\ content = <<>>
    /\ original_content = <<>>
    /\ fixed_count = 0
    /\ report = <<>>
    /\ status = [f \in FileIds |-> "None"]
    /\ reads = [f \in FileIds |-> 0]
    /\ writes = [f \in FileIds |-> 0]
    /\ faults = 0
    /\ PassIdle

-----------------------------------------------------------------------------
(* The walk                                                                 *)

\* The files os.walk(root) yields that pass main()'s tests, in listing order.
WalkFiles(s, root) ==
    LET Keep(f) ==
            /\ Present(f)
            /\ IsPrefix(root, Paths[f].dir)
            /\ ~(SkipsNodeModules(s) /\ InRoot(Paths[f].dir))
            /\ EndsWithAllowed(Paths[f].name)
    IN  SelectSeq([f \in FileIds |-> f], Keep)

\* A slip: the loop yields its first file again.
RestKeepsHead(q) == q

\* The loop variable moves on: the files still to come.
Rest(q) == Tail(q)

\* A slip: "break" on a missing directory.
AfterMissingBreak(i) == Len(Directories(script)) + 1

\* "continue" on a missing directory: the next directory of the list.
AfterMissing(i) == i + 1

\* A slip: no handler, the exception leaves main().
AfterExceptionUncaught == "crashed"

\* "except Exception" ends the file's task, and the loop goes on.
AfterException == "walk"

Line(kind, f) == [kind |-> kind, path |-> f]

Start ==
    /\ pc = "start"
    /\ IF WritesAlways(script)
         THEN queue' = FixedFiles /\ pc' = "walk" /\ rootIdx' = rootIdx
         ELSE queue' = queue /\ pc' = "roots" /\ rootIdx' = 1
    /\ UNCHANGED << script, missing, orig, disk, cur, content, original_content,
                    fixed_count, report, status, reads, writes, faults, passVars >>

\* if not os.path.exists(directory): continue
SkipMissingRoot ==
    /\ pc = "roots"
    /\ rootIdx <= Len(Directories(script))
    /\ ChecksExists(script)
    /\ ~DirExists(Directories(script)[rootIdx])
    /\ rootIdx' = AfterMissing(rootIdx)
    /\ report' = IF PrintsNotFound(script)
                   THEN Append(report, [kind |-> "notfound", root |-> rootIdx])
                   ELSE report
    /\ UNCHANGED << script, missing, orig, disk, pc, queue, cur, content,
                    original_content, fixed_count, status, reads, writes, faults,
                    passVars >>

\* for root, dirs, files in os.walk(directory)
EnterRoot ==
    /\ pc = "roots"
    /\ rootIdx <= Len(Directories(script))
    /\ ChecksExists(script) => DirExists(Directories(script)[rootIdx])
    /\ queue' = WalkFiles(script, Directories(script)[rootIdx])
    /\ pc' = "walk"
    /\ UNCHANGED << script, missing, orig, disk, rootIdx, cur, content,
                    original_content, fixed_count, report, status, reads, writes,
                    faults, passVars >>

\* print(f"... Total files ...: {fixed_count}")
Summary ==
    /\ pc = "roots"
    /\ rootIdx > Len(Directories(script))
    /\ report' = Append(report, [kind |-> "total", changed |-> fixed_count])
    /\ pc' = "done"
    /\ UNCHANGED << script, missing, orig, disk, rootIdx, queue, cur, content,
                    original_content, fixed_count, status, reads, writes, faults,
                    passVars >>

NextFile ==
    /\ pc = "walk"
    /\ queue # <<>>
    /\ cur' = Head(queue)
    /\ queue' = Rest(queue)
    /\ status' = [status EXCEPT ![Head(queue)] = "Discovered"]
    /\ pc' = "read"
    /\ UNCHANGED << script, missing, orig, disk, rootIdx, content, original_content,
                    fixed_count, report, reads, writes, faults, passVars >>

EndWalk ==
    /\ pc = "walk"
    /\ queue = <<>>
    /\ IF WritesAlways(script)
         THEN pc' = "done" /\ rootIdx' = rootIdx
         ELSE pc' = "roots" /\ rootIdx' = rootIdx + 1
    /\ UNCHANGED << script, missing, orig, disk, queue, cur, content,
                    original_content, fixed_count, report, status, reads, writes,
                    faults, passVars >>

-----------------------------------------------------------------------------
(* One file                                                                 *)

\* with open(filepath, 'r') as f: content = f.read(); original_content = content
ReadOk ==
    /\ pc = "read"
    /\ Present(cur)
    /\ content' = disk[cur]
    /\ original_content' = IF WritesAlways(script) THEN original_content ELSE disk[cur]
    /\ reads' = [reads EXCEPT ![cur] = @ + 1]
    /\ status' = [status EXCEPT ![cur] = "Read"]
    /\ pc' = "transform"
    /\ UNCHANGED << script, missing, orig, disk, rootIdx, queue, cur, fixed_count,
                    report, writes, faults, passVars >>

\* open or read raises: the file is absent, or the I/O fails
ReadFail ==
    /\ pc = "read"
    /\ Present(cur) => faults < MaxFaults
    /\ faults' = IF Present(cur) THEN faults + 1 ELSE faults
    /\ reads' = [reads EXCEPT ![cur] = @ + 1]
    /\ status' = [status EXCEPT ![cur] = "ReadFailed"]
    /\ report' = Append(report, Line("error", cur))
    /\ pc' = AfterException
    /\ UNCHANGED << script, missing, orig, disk, rootIdx, queue, cur, content,
                    original_content, fixed_count, writes, passVars >>

Transform ==
    /\ pc = "transform"
    /\ content' = ApplyRules(Replacements(script), content)
    /\ status' = [status EXCEPT ![cur] = "Transformed"]
    /\ pc' = "compare"
    /\ UNCHANGED << script, missing, orig, disk, rootIdx, queue, cur,
                    original_content, fixed_count, report, reads, writes, faults,
                    passVars >>

\* if content != original_content  (fix_event_index_index has no such test)
NeedsWrite == IF WritesAlways(script) THEN TRUE ELSE content # original_content

ScheduleWrite ==
    /\ pc = "compare"
    /\ NeedsWrite
    /\ status' = [status EXCEPT ![cur] = "WriteScheduled"]
    /\ pc' = "open"
    /\ UNCHANGED << script, missing, orig, disk, rootIdx, queue, cur, content,
                    original_content, fixed_count, report, reads, writes, faults,
                    passVars >>

\* return False
LeaveUnchanged ==
    /\ pc = "compare"
    /\ ~NeedsWrite
    /\ status' = [status EXCEPT ![cur] = "Unchanged"]
    /\ pc' = "walk"
    /\ UNCHANGED << script, missing, orig, disk, rootIdx, queue, cur, content,
                    original_content, fixed_count, report, reads, writes, faults,
                    passVars >>

\* open(filepath, 'w') truncates the file
OpenWriteOk ==
    /\ pc = "open"
    /\ disk' = [disk EXCEPT ![cur] = <<>>]
    /\ writes' = [writes EXCEPT ![cur] = @ + 1]
    /\ pc' = "write"
    /\ UNCHANGED << script, missing, orig, rootIdx, queue, cur, content,
                    original_content, fixed_count, report, status, reads, faults,
                    passVars >>

\* open(filepath, 'w') raises: the file is as it was
OpenWriteFail ==
    /\ pc = "open"
    /\ faults < MaxFaults
    /\ faults' = faults + 1
    /\ writes' = [writes EXCEPT ![cur] = @ + 1]
    /\ status' = [status EXCEPT ![cur] = "WriteFailed"]
    /\ report' = Append(report, Line("error", cur))
    /\ pc' = AfterException
    /\ UNCHANGED << script, missing, orig, disk, rootIdx, queue, cur, content,
                    original_content, fixed_count, reads, passVars >>

\* f.write(content), the file closes; return True and main() counts the file
WriteOk ==
    /\ pc = "write"
    /\ disk' = [disk EXCEPT ![cur] = content]
    /\ status' = [status EXCEPT ![cur] = "Written"]
    /\ report' = Append(report, Line("fixed", cur))
    /\ fixed_count' = IF CountsFixed(script) THEN fixed_count + 1 ELSE fixed_count
    /\ pc' = "walk"
    /\ UNCHANGED << script, missing, orig, rootIdx, queue, cur, content,
                    original_content, reads, writes, faults, passVars >>

\* f.write or the close raises: some leading part of content is on the disk
WriteFail ==
    /\ pc = "write"
    /\ faults < MaxFaults
    /\ \E k \in 0..Len(content) :
          disk' = [disk EXCEPT ![cur] = SubSeq(content, 1, k)]
    /\ faults' = faults + 1
    /\ status' = [status EXCEPT ![cur] = "WriteFailed"]
    /\ report' = Append(report, Line("error", cur))
    /\ pc' = AfterException
    /\ UNCHANGED << script, missing, orig, rootIdx, queue, cur, content,
                    original_content, fixed_count, reads, writes, passVars >>

Next ==
    \/ Start
    \/ SkipMissingRoot
    \/ EnterRoot
    \/ Summary
    \/ NextFile
    \/ EndWalk
    \/ ReadOk
    \/ ReadFail
    \/ Transform
    \/ ScheduleWrite
    \/ LeaveUnchanged
    \/ OpenWriteOk
    \/ OpenWriteFail
    \/ WriteOk
    \/ WriteFail

Spec == Init /\ [][Next]_vars

\* The scripts run one thread to the end: a step that can be taken is taken.
FairSpec == Spec /\ WF_vars(Next)

-----------------------------------------------------------------------------
(* One pass over one content, and the pass again                            *)

PassInit ==
    /\ rs \in Scripts \cup Examples
    /\ input \in SeqsUpTo(Alphabet(rs), MaxLen)
    /\ out1 = <<>>
    /\ out2 = <<>>
    /\ stage = 0
    /\ RunIdle

FirstPass ==
    /\ stage = 0
    /\ out1' = ApplyRules(Replacements(rs), input)
    /\ stage' = 1
    /\ UNCHANGED << rs, input, out2, runVars >>

\* a second run of the script reads what the first wrote
SecondPass ==
    /\ stage = 1
    /\ out2' = ApplyRules(Replacements(rs), out1)
    /\ stage' = 2
    /\ UNCHANGED << rs, input, out1, runVars >>

PassNext == FirstPass \/ SecondPass

PassSpec == PassInit /\ [][PassNext]_vars

-----------------------------------------------------------------------------
(* Properties                                                               *)

Terminal == { "Unchanged", "Written", "WriteFailed", "ReadFailed" }
Failed == { "WriteFailed", "ReadFailed" }
Range(q) == { q[k] : k \in 1..Len(q) }

\* The files a run is to process: those the walks of the existing roots yield.
CandidateSet ==
    IF WritesAlways(script) THEN Range(FixedFiles)
    ELSE UNION { Range(WalkFiles(script, Directories(script)[i])) :
                   i \in { j \in 1..Len(Directories(script)) :
                             DirExists(Directories(script)[j]) } }

\* What a run in which no I/O fails leaves of file f, and how it ends for f.
NoFailContent(f) == ApplyRules(Replacements(script), orig[f])
NoFailStatus(f) ==
    IF WritesAlways(script) \/ NoFailContent(f) # orig[f] THEN "Written" ELSE "Unchanged"

LinesOf(kind, f) ==
    { k \in 1..Len(report) : report[k].kind = kind /\ report[k].path = f }
ErrorLines == { k \in 1..Len(report) : report[k].kind = "error" }

\* The run is over: it reached its end, or an exception left main().
Halted == pc \in { "done", "crashed" }

\* C1: a file whose content the rules leave as it was read is never opened
\* for writing, in any script.
C1_UnchangedNeverOpenedForWrite ==
    \A f \in FileIds :
        (reads[f] > 0 /\ ApplyRules(Replacements(script), orig[f]) = orig[f])
            => writes[f] = 0

\* C2: after a failed write the file on disk holds its original content.
C2_FailedWriteKeepsOriginal ==
    \A f \in FileIds : status[f] = "WriteFailed" => disk[f] = orig[f]

\* C3: when the run is over every candidate file has been processed, and
\* every file that did not fail holds the content, and has the outcome, of
\* the run in which nothing fails; a file that is no candidate is untouched.
C3_ErrorIsolation ==
    Halted =>
        /\ \A f \in CandidateSet :
              /\ status[f] \in Terminal
              /\ status[f] \notin Failed =>
                    /\ disk[f] = NoFailContent(f)
                    /\ status[f] = NoFailStatus(f)
                    /\ Cardinality(LinesOf("fixed", f))
                         = IF NoFailStatus(f) = "Written" THEN 1 ELSE 0
        /\ \A f \in FileIds \ CandidateSet : disk[f] = orig[f] /\ status[f] = "None"

\* C3's case: a file failed and a file processed after it was rewritten.
C3_Witness ==
    /\ pc = "done"
    /\ \E i, j \in 1..Len(report) :
          /\ i < j
          /\ report[i].kind = "error"
          /\ report[j].kind = "fixed"
          /\ status[report[j].path] = "Written"

\* C6: the report gives a changed count equal to the number of files whose
\* content on disk differs from before the run, and an errored count equal to
\* the number of files whose read or write failed, and names each errored file.
C6_ReportCounts ==
    pc = "done" =>
        /\ \E k \in 1..Len(report) :
              /\ report[k].kind = "total"
              /\ report[k].changed = Cardinality({ f \in FileIds : disk[f] # orig[f] })
              /\ "errored" \in DOMAIN report[k]
              /\ report[k].errored = Cardinality({ f \in FileIds : status[f] \in Failed })
        /\ \A f \in FileIds :
              /\ Cardinality(LinesOf("error", f)) = IF status[f] \in Failed THEN 1 ELSE 0
              /\ Cardinality(LinesOf("error", f) \cup LinesOf("fixed", f)) <= 1

AllowedSteps ==
    { <<"None", "Discovered">>, <<"Discovered", "Read">>, <<"Discovered", "ReadFailed">>,
      <<"Read", "Transformed">>, <<"Transformed", "Unchanged">>,
      <<"Transformed", "WriteScheduled">>, <<"WriteScheduled", "Written">>,
      <<"WriteScheduled", "WriteFailed">> }

\* C7: every file moves only along Discovered, Read, Transformed, Unchanged
\* or WriteScheduled, Written or WriteFailed (or Discovered, ReadFailed); it is
\* read at most once and not opened for writing before its read; and the run
\* ends with every candidate file read once and in one terminal state.
C7_LifeCycle ==
    /\ [][\A f \in FileIds :
            status'[f] # status[f] => <<status[f], status'[f]>> \in AllowedSteps]_vars
    /\ [](\A f \in FileIds :
            /\ reads[f] <= 1
            /\ writes[f] <= 1
            /\ writes[f] > 0 =>
                  reads[f] = 1 /\ status[f] \in { "WriteScheduled", "Written", "WriteFailed" })
    /\ <>[](/\ pc = "done"
            /\ \A f \in CandidateSet : reads[f] = 1 /\ status[f] \in Terminal
            /\ \A f \in FileIds \ CandidateSet : status[f] = "None")

\* C7's case: a finished run with a written, an unchanged and a failed file.
C7_Witness ==
    /\ pc = "done"
    /\ \E f, g, h \in FileIds :
          status[f] = "Written" /\ status[g] = "Unchanged" /\ status[h] \in Failed

\* C8: a missing configured root yields no file and no error line, and every
\* file under every other configured root is processed, once.
C8_MissingRootSkipped ==
    pc = "done" =>
        /\ \A i \in 1..Len(Directories(script)) :
              IF DirExists(Directories(script)[i])
                THEN \A f \in Range(WalkFiles(script, Directories(script)[i])) :
                        reads[f] = 1 /\ status[f] \in Terminal
                ELSE \A f \in FileIds :
                        IsPrefix(Directories(script)[i], Paths[f].dir) => status[f] = "None"
        /\ Cardinality(ErrorLines) = Cardinality({ f \in FileIds : status[f] \in Failed })
        /\ \A k \in ErrorLines : status[report[k].path] \in Failed

\* C8's case: a root is missing and a file under a root listed after it was
\* rewritten.
C8_Witness ==
    /\ pc = "done"
    /\ \E i, j \in 1..Len(Directories(script)) :
          /\ i < j
          /\ ~DirExists(Directories(script)[i])
          /\ \E f \in Range(WalkFiles(script, Directories(script)[j])) :
                status[f] = "Written"

\* The files the claim names: under a configured root, with an allowed
\* extension, no directory component named node_modules (where configured).
ClaimedFiles ==
    IF WritesAlways(script) THEN Range(FixedFiles)
    ELSE { f \in FileIds :
             /\ Present(f)
             /\ \E i \in 1..Len(Directories(script)) :
                   IsPrefix(Directories(script)[i], Paths[f].dir)
             /\ EndsWithAllowed(Paths[f].name)
             /\ SkipsNodeModules(script) =>
                   \A k \in 1..Len(Paths[f].dir) : Paths[f].dir[k] # <<"node_modules">> }

\* C9: the files a run reads or writes are exactly the files under a
\* configured root with an allowed extension and no directory component
\* named node_modules.
C9_ExactFileSet ==
    pc = "done" => { f \in FileIds : reads[f] > 0 \/ writes[f] > 0 } = ClaimedFiles

\* C4: for each script's rule list, a second application changes nothing.
C4_Idempotent ==
    (rs \in Scripts /\ stage = 2) => out2 = out1

\* C5: one pass applies the rules in list order, each to the output of the
\* one before, without re-scanning: [A->B, B->C] takes "A" to "C", and
\* [B->C, A->B] takes "A" to "B".
C5_SinglePassInOrder ==
    (stage >= 1 /\ input = <<"A">>) =>
        /\ rs = "example_chain" => out1 = <<"C">>
        /\ rs = "example_reversed" => out1 = <<"B">>

\* C5's case: the reversed list has been applied to "A".
C5_Witness ==
    rs = "example_reversed" /\ input = <<"A">> /\ stage = 1 /\ out1 = <<"B">>

\* The import-path rules of fix_state_series_refs.
ImportPathRules == 8..12

RECURSIVE DropFrom(_, _, _)
\* The rules from k on, those at the indices I left out.
DropFrom(rules, I, k) ==
    IF k > Len(rules) THEN <<>>
    ELSE (IF k \in I THEN <<>> ELSE <<rules[k]>>) \o DropFrom(rules, I, k + 1)

\* C10: in fix_state_series_refs no import-path rule matches the content it
\* is given, and the list without these rules gives the same output.
C10_ImportRulesDead ==
    (rs = "fix_state_series_refs" /\ stage >= 1) =>
        LET rules == Replacements(rs) IN
        /\ \A i \in ImportPathRules :
              ~Matches(rules[i], ApplyRules(SubSeq(rules, 1, i - 1), input))
        /\ out1 = ApplyRules(DropFrom(rules, ImportPathRules, 1), input)

\* C10's case: a pass over an import of a renamed selector.
C10_Witness ==
    /\ rs = "fix_state_series_refs"
    /\ stage = 1
    /\ input = <<"from 'Store/Selectors/", "createMultiSeriesSelector", "'">>
    /\ out1 = <<"from 'Store/Selectors/", "createMultiEventSelector", "'">>

====
